---- MODULE Spec2Model ----
(***************************************************************************)
(* Model of harxhan/Coding-Agent.                                          *)
(*                                                                         *)
(*  - the CodeIndexer of src/code_indexer.py lines 8-272 (the walker, the  *)
(*    syntax-tree walk, the folder and file views of the Index document);  *)
(*  - the trace engine of src/code_indexer.py lines 546-561 and its        *)
(*    /trace endpoint of src/main.py lines 183-196;                        *)
(*  - build_context of src/main.py lines 58-120 with its /explain endpoint *)
(*    (lines 145-152), over the legacy stores of src/code_indexer.py lines *)
(*    288-300;                                                             *)
(*  - the ignore filter, unreadable files, a missing root and a reader of  *)
(*    indexer.json beside index().                                         *)
(*                                                                         *)
(* Strings the program slices, splits or rewrites (paths, qualified names) *)
(* are sequences of tokens: an identifier is one token, and "/", ".", "p", *)
(* "y" are tokens of their own, so that replace('/', '.'), [:-3], dirname  *)
(* and basename are computed as the code computes them.                    *)
(***************************************************************************)
EXTENDS Integers, Sequences, FiniteSets, TLC

VARIABLES
    repo,          \* the file tree: path -> content of the file (never changes)
    root_exists,   \* whether self.root_path is a directory that can be listed
    pc,            \* position of index(): idle, walk, folders, files, done, raised
    todo,          \* files os.walk has still to yield in this run
    files_source,  \* self.files_source: the paths read, in insertion order
    imports,       \* self.imports: path -> [internal, external]
    symbol_defs,   \* self.symbol_defs: ordered dict qualified name -> meta
    called_by,     \* self.called_by: bare callee name -> set of callers
    heap,          \* the Index documents allocated so far (object id -> value)
    self_json,     \* self.json: the object id the CodeIndexer holds
    returned,      \* history: the object each index() call returned, its value then (snap)
                   \* and the file views that call had produced (new)
    reg,           \* history: the qualified names given out in this run, in order
    sites,         \* history: the call expressions this run met inside a function,
                   \* [fn, target, fntype]
    base,          \* history: the length of codebase.files when this run started
    observed,      \* history: what a reader of indexer.json last saw, or NotRead
    calls,         \* legacy self.calls: caller -> set of callees
    query,         \* the running trace call: [start, depth], or NoQuery
    stack,         \* the call stack of dfs: frames [symbol, d, rest] in their loop
    visited,       \* dfs: visited
    result,        \* dfs: result, node -> its direct targets
    expanded,      \* history: how often each node was expanded by this trace call
    response,      \* what trace_symbol answered: none, error or graph
    earlier,       \* history: the query and the answer of an earlier trace call
    symbols,       \* legacy self.symbols: the names that have a stored source slice
    callback_used_by, \* legacy self.callback_used_by: callback -> set of functions
    entry_points,  \* legacy self.entry_points: the records of the detected entry points
    ctx_pc,        \* position of build_context: idle, trace (inside indexer.trace), returned
    seen,          \* build_context: seen
    sections,      \* build_context: sections, one block per emitted symbol
    trace_keys     \* the keys of the trace dict build_context iterates, in insertion order

vars == <<repo, root_exists, pc, todo, files_source, imports, symbol_defs, called_by,
          heap, self_json, returned, reg, sites, base, observed, calls, query, stack,
          visited, result,
          expanded, response, earlier, symbols, callback_used_by, entry_points,
          ctx_pc, seen, sections, trace_keys>>

indexVars == <<repo, root_exists, pc, todo, files_source, imports, symbol_defs,
               called_by, heap, self_json, returned, reg, sites, base, observed>>

traceVars == <<calls, query, stack, visited, result, expanded, response>>

contextVars == <<symbols, callback_used_by, entry_points, ctx_pc, seen, sections,
                 trace_keys>>

\* what index() leaves alone
nonIndexVars == <<traceVars, earlier, contextVars>>

\* what a trace call leaves alone
nonTraceVars == <<indexVars, earlier, contextVars>>

(***************************************************************************)
(* Bounds                                                                  *)
(***************************************************************************)
\* index() runs observed in one behaviour
MaxRuns == 2

\* the largest trace depth asked for
MaxDepth == 3

\* the largest number of distinct callees of one function
MaxCallees == 2

\* the largest number of call edges of an index build_context is asked over
MaxEdges == 3

(***************************************************************************)
(* Strings                                                                 *)
(***************************************************************************)
Range(s) == {s[i] : i \in 1..Len(s)}

\* str.replace(old, new) for one-token old and new
Replace(s, old, new) == [i \in 1..Len(s) |-> IF s[i] = old THEN new ELSE s[i]]

\* s[:-3]
DropLast3(s) == SubSeq(s, 1, Len(s) - 3)

\* file_path.replace('/', '.')[:-3]
ModulePath(file_path) == DropLast3(Replace(file_path, "/", "."))

\* f"{a}.{b}"
Dotted(a, b) == a \o <<".">> \o b

LastSlash(p) ==
    IF \E i \in 1..Len(p) : p[i] = "/"
    THEN CHOOSE i \in 1..Len(p) : p[i] = "/" /\ \A j \in (i+1)..Len(p) : p[j] # "/"
    ELSE 0

\* os.path.dirname
Dirname(p) == SubSeq(p, 1, LastSlash(p) - 1)

\* os.path.basename
Basename(p) == SubSeq(p, LastSlash(p) + 1, Len(p))

\* file.endswith(".py")
EndsWithPy(p) == Len(p) >= 3 /\ SubSeq(p, Len(p) - 2, Len(p)) = <<".", "p", "y">>

(***************************************************************************)
(* Ordered dictionaries (a Python dict keeps the order of first insertion) *)
(***************************************************************************)
EmptyDict == [keys |-> <<>>, val |-> <<>>]

DictHas(d, k) == k \in Range(d.keys)

DictPut(d, k, v) ==
    [keys |-> IF DictHas(d, k) THEN d.keys ELSE Append(d.keys, k),
     val  |-> [x \in Range(d.keys) \cup {k} |-> IF x = k THEN v ELSE d.val[x]]]

\* d.values(), in order
DictValues(d) == [i \in 1..Len(d.keys) |-> d.val[d.keys[i]]]

(***************************************************************************)
(* Syntax trees, as the parse adapter hands them over.  Only the nodes the *)
(* walk acts upon are kept; name is the text of the node's name field (of  *)
(* the callee for a call, of the module for an import), fntype the type of *)
(* a call's function field, args the identifier arguments of a call.       *)
(***************************************************************************)
Mk(t, n, k) == [type |-> t, name |-> n, fntype |-> "", args |-> <<>>, kids |-> k]

Module(k) == Mk("module", <<>>, k)

Class(n, k) == Mk("class_definition", <<n>>, k)

Func(n, k) == Mk("function_definition", <<n>>, k)

Import(n) == Mk("import_statement", <<n>>, <<>>)

ImportFrom(n) == Mk("import_from_statement", <<n>>, <<>>)

IfStmt(k) == Mk("if_statement", <<>>, k)

CallId(n, a) ==
    [type |-> "call", name |-> <<n>>, fntype |-> "identifier", args |-> a, kids |-> <<>>]

CallAttr(n, a) ==
    [type |-> "call", name |-> <<n>>, fntype |-> "attribute", args |-> a, kids |-> <<>>]

\* a file without any class or function
SrcImportOnly == Module(<<Import("os"), CallId("setup", <<>>)>>)

\* class Widget: def render(self): log()
SrcWidget == Module(<<Class("Widget", <<Func("render", <<CallId("log", <<>>)>>)>>)>>)

\* def log(): pass / def helper(): log()
SrcLog == Module(<<Func("log", <<>>), Func("helper", <<CallId("log", <<>>)>>)>>)

\* class A: class X: def m / class B: class X: def n(): m()
SrcNested ==
    Module(<<Class("A", <<Class("X", <<Func("m", <<>>)>>)>>),
             Class("B", <<Class("X", <<Func("n", <<CallId("m", <<>>)>>)>>)>>)>>)

\* class b: def c(): log() / def e(): if ..: obj.save() ; def after(): run(c)
SrcBC ==
    Module(<<ImportFrom("mypkg"),
             Class("b", <<Func("c", <<CallId("log", <<>>)>>),
                          Func("e", <<IfStmt(<<CallAttr("save", <<>>)>>)>>)>>),
             Func("after", <<CallId("run", <<<<"c">>>>)>>)>>)

\* def c(): helper()
SrcC == Module(<<Func("c", <<CallId("helper", <<>>)>>)>>)

\* def f(): class f: pass ; g()
SrcCrash == Module(<<Func("f", <<Class("f", <<>>), CallId("g", <<>>)>>)>>)

Library == {SrcImportOnly, SrcWidget, SrcLog, SrcNested, SrcBC, SrcC, SrcCrash}

PathA == <<"a", ".", "p", "y">>

PathAB == <<"a", ".", "b", ".", "p", "y">>

PathDA == <<"d", "/", "a", ".", "p", "y">>

Paths == {PathA, PathAB, PathDA}

PathPkg == <<"mypkg", "/", "m", ".", "p", "y">>

PathReq == <<"requirements", ".", "txt">>

PathGitignore == <<".", "gitignore">>

DirD == <<"d">>

\* a file open() or read() raises on
Unreadable == Mk("unreadable", <<>>, <<>>)

\* import os / import requestsX / from mypkg import ..
SrcDeps == Module(<<Import("os"), Import("requestsX"), ImportFrom("mypkg")>>)

\* a dependency manifest: requestsX==2.0 / # note / clickY
Manifest ==
    [type |-> "manifest",
     lines |-> <<<<"requestsX", "==", "2.0">>, <<"#", "note">>, <<"clickY">>>>]

\* a .gitignore whose PathSpec matches the relative paths in ms
Gitignore(ms) == [type |-> "gitignore", matches |-> ms]

\* the file trees indexed: every subset of Paths, each file with any content
Repos == UNION {[ps -> Library] : ps \in SUBSET Paths}

\* the trees with one file at path p at most, its content taken from cs
Opt(p, cs) == {<<>>} \cup {[x \in {p} |-> c] : c \in cs}

\* file trees with files that cannot be read, a manifest, a package directory
\* and a .gitignore matching any of the directory d, a.py and d/a.py
Trees ==
    {a @@ da @@ pkg @@ req @@ gi :
        a \in Opt(PathA, {SrcDeps, Unreadable}),
        da \in Opt(PathDA, {SrcLog, Unreadable}),
        pkg \in Opt(PathPkg, {SrcC}),
        req \in Opt(PathReq, {Manifest}),
        gi \in Opt(PathGitignore, {Gitignore(ms) : ms \in SUBSET {DirD, PathA, PathDA}})}

AllPaths == Paths \cup {PathPkg, PathReq, PathGitignore}

(***************************************************************************)
(* The syntax-tree walk                                                    *)
(***************************************************************************)
\* None, and every other falsy name: the empty string
None == <<>>

\* Python truthiness of a name
Truthy(x) == Len(x) > 0

\* The meta record of a class.  The code's class record has no calls, called_by,
\* callbacks and control_flow keys: reading one of them raises KeyError, which
\* the walk models by testing the type before it reads them.
ClassMeta(name, qname, file_path) ==
    [type |-> "class", name |-> name, qualified_name |-> qname, file |-> file_path,
     methods |-> <<>>, inherits_from |-> <<>>,
     calls |-> {}, called_by |-> {}, callbacks |-> {}, control_flow |-> <<>>]

\* The meta record of a function (it has no methods and inherits_from keys).
FunctionMeta(name, qname, file_path) ==
    [type |-> "function", name |-> name, qualified_name |-> qname, file |-> file_path,
     methods |-> <<>>, inherits_from |-> <<>>,
     calls |-> {}, called_by |-> {}, callbacks |-> {}, control_flow |-> <<>>]

\* qname of a class node
ClassQName(file_path, name) == Dotted(ModulePath(file_path), name)

\* qname of a function node
FunctionQName(file_path, current_class, name) ==
    IF Truthy(current_class) THEN Dotted(current_class, name)
    ELSE Dotted(ModulePath(file_path), name)

\* self.symbol_defs[q][field] = v
SetField(defs, q, field, v) ==
    [defs EXCEPT !.val[q] = [defs.val[q] EXCEPT ![field] = v]]

\* the class branch
VisitClass(node, file_path, st) ==
    LET qname == ClassQName(file_path, node.name)
    IN  [st EXCEPT !.defs = DictPut(st.defs, qname, ClassMeta(node.name, qname, file_path)),
                   !.reg = Append(st.reg, qname)]

\* the function branch; a class record overwritten by a function has no methods
VisitFunction(node, file_path, current_class, st) ==
    LET qname == FunctionQName(file_path, current_class, node.name)
        put   == DictPut(st.defs, qname, FunctionMeta(node.name, qname, file_path))
        st1   == [st EXCEPT !.defs = put, !.reg = Append(st.reg, qname)]
    IN  IF ~Truthy(current_class) THEN st1
        ELSE IF put.val[current_class].type # "class" THEN [st1 EXCEPT !.err = TRUE]
        ELSE [st1 EXCEPT !.defs = SetField(put, current_class, "methods",
                                     Append(put.val[current_class].methods, node.name))]

\* the import branches
VisitImport(node, file_path, st) ==
    IF node.type = "import_statement"
    THEN [st EXCEPT !.imports[file_path].external = @ \o <<node.name>>]
    ELSE IF node.type = "import_from_statement"
    THEN [st EXCEPT !.imports[file_path].internal = @ \o <<node.name>>]
    ELSE st

\* self.called_by.setdefault(callee, set()).add(current_function)
CalledByAdd(cb, callee, caller) ==
    [x \in DOMAIN cb \cup {callee} |->
        IF x = callee
        THEN (IF callee \in DOMAIN cb THEN cb[callee] ELSE {}) \cup {caller}
        ELSE cb[x]]

\* the call branch: the callee of an identifier call, then the identifier arguments
VisitCall(node, current_function, st) ==
    LET isFn == st.defs.val[current_function].type = "function"
        st0 == [st EXCEPT !.sites = @ \cup {[fn |-> current_function,
                                              target |-> node.name,
                                              fntype |-> node.fntype]}]
        st1 == IF node.fntype # "identifier" THEN st0
               ELSE IF ~isFn THEN [st0 EXCEPT !.err = TRUE]
               ELSE [st0 EXCEPT
                       !.defs = SetField(st.defs, current_function, "calls",
                                  st.defs.val[current_function].calls \cup {node.name}),
                       !.called_by = CalledByAdd(st.called_by, node.name, current_function)]
    IN  IF st1.err \/ node.args = <<>> THEN st1
        ELSE IF ~isFn THEN [st1 EXCEPT !.err = TRUE]
        ELSE [st1 EXCEPT
                !.defs = SetField(st1.defs, current_function, "callbacks",
                           st1.defs.val[current_function].callbacks \cup Range(node.args))]

\* the control-flow branch
VisitControlFlow(node, current_function, st) ==
    IF st.defs.val[current_function].type # "function" THEN [st EXCEPT !.err = TRUE]
    ELSE [st EXCEPT
            !.defs = SetField(st.defs, current_function, "control_flow",
                       Append(st.defs.val[current_function].control_flow,
                              IF node.type = "if_statement" THEN "if" ELSE "try"))]

RECURSIVE WalkAst(_, _, _, _, _)
RECURSIVE WalkChildren(_, _, _, _, _, _)

\* _walk_ast; st = [defs, imports, called_by, reg, sites, err], err once an exception is
\* raised (it ends the walk)
WalkAst(node, file_path, current_class, current_function, st) ==
    LET s1  == IF node.type = "class_definition" THEN VisitClass(node, file_path, st) ELSE st
        cc  == IF node.type = "class_definition" THEN ClassQName(file_path, node.name)
               ELSE current_class
        s2  == IF node.type = "function_definition" /\ ~s1.err
               THEN VisitFunction(node, file_path, cc, s1) ELSE s1
        cf  == IF node.type = "function_definition"
               THEN FunctionQName(file_path, cc, node.name) ELSE current_function
        s3  == IF s2.err THEN s2 ELSE VisitImport(node, file_path, s2)
        s4  == IF node.type = "call" /\ Truthy(cf) /\ ~s3.err
               THEN VisitCall(node, cf, s3) ELSE s3
        s5  == IF node.type \in {"if_statement", "try_statement"} /\ Truthy(cf) /\ ~s4.err
               THEN VisitControlFlow(node, cf, s4) ELSE s4
    IN  WalkChildren(node.kids, 1, file_path, cc, cf, s5)

\* for child in node.children: self._walk_ast(child, ...)
WalkChildren(kids, i, file_path, cc, cf, st) ==
    IF st.err \/ i > Len(kids) THEN st
    ELSE WalkChildren(kids, i + 1, file_path, cc, cf,
                      WalkAst(kids[i], file_path, cc, cf, st))

(***************************************************************************)
(* The Index document                                                      *)
(***************************************************************************)
RECURSIVE Pick(_, _, _)
\* the subsequence of s at the indices in idx, from index i on
Pick(s, i, idx) ==
    IF i > Len(s) THEN <<>>
    ELSE (IF i \in idx THEN <<s[i]>> ELSE <<>>) \o Pick(s, i + 1, idx)

\* the elements of s in the order of their first occurrence (the keys of a dict
\* filled by setdefault over s)
FirstOccurrences(s) ==
    Pick(s, 1, {i \in 1..Len(s) : \A j \in 1..(i - 1) : s[j] # s[i]})

\* the value self.json is given by __init__
EmptyJson == [external_dependencies |-> <<>>, folders |-> <<>>, files |-> <<>>]

\* one entry of codebase.folders
FolderEntry(folder, paths) ==
    [path  |-> IF Truthy(folder) THEN folder \o <<"/">> ELSE <<".", "/">>,
     files |-> [i \in 1..Len(paths) |-> Basename(paths[i])]]

\* what _build_folder_index appends to codebase.folders
FolderEntries(fs) ==
    LET dirs == FirstOccurrences([i \in 1..Len(fs) |-> Dirname(fs[i])])
    IN  [k \in 1..Len(dirs) |->
            FolderEntry(dirs[k], Pick(fs, 1, {i \in 1..Len(fs) : Dirname(fs[i]) = dirs[k]}))]

\* the class view of a symbol
ClassView(sym) ==
    [name |-> sym.name, qualified_name |-> sym.qualified_name, symbol_type |-> "class",
     class_inherits_from |-> sym.inherits_from, class_methods |-> sym.methods]

\* FunctionView with the reverse edges taken from self.called_by, which is keyed
\* by the bare callee name: every function of that name gets the callers
FunctionViewByShortName(sym) ==
    [name |-> sym.name, qualified_name |-> sym.qualified_name, symbol_type |-> "function",
     calls |-> sym.calls,
     called_by |-> IF sym.name \in DOMAIN called_by THEN called_by[sym.name] ELSE {},
     used_as_callback_by |-> sym.callbacks, control_flow |-> sym.control_flow]

\* the function view of a symbol; list(set) is kept as the set it lists
FunctionView(sym) ==
    [name |-> sym.name, qualified_name |-> sym.qualified_name, symbol_type |-> "function",
     calls |-> sym.calls, called_by |-> sym.called_by,
     used_as_callback_by |-> sym.callbacks, control_flow |-> sym.control_flow]

\* one entry of codebase.files
FileEntry(file_path, syms, imps) ==
    LET mine(t) == Pick(syms, 1, {i \in 1..Len(syms) :
                                    syms[i].file = file_path /\ syms[i].type = t})
        cls == mine("class")
        fns == mine("function")
    IN  [path |-> file_path, imports |-> imps[file_path],
         classes   |-> [i \in 1..Len(cls) |-> ClassView(cls[i])],
         functions |-> [i \in 1..Len(fns) |-> FunctionView(fns[i])]]

\* what _build_file_objects appends to codebase.files
FileEntries(defs, imps) ==
    LET syms  == DictValues(defs)
        files == FirstOccurrences([i \in 1..Len(syms) |-> syms[i].file])
    IN  [k \in 1..Len(files) |-> FileEntry(files[k], syms, imps)]

(***************************************************************************)
(* index()                                                                 *)
(***************************************************************************)
\* _load_gitignore: None without a .gitignore under the root, else the PathSpec
\* of its lines.  A PathSpec is kept as the set of relative paths (of files and of
\* directories) its match_file answers True for.
LoadGitignore(tree) ==
    IF root_exists /\ PathGitignore \in DOMAIN tree
    THEN <<tree[PathGitignore].matches>> ELSE None

\* _is_ignored
IsIgnored(relative_path) ==
    LET gitignore == LoadGitignore(repo)
    IN  IF ~Truthy(gitignore) THEN FALSE ELSE relative_path \in gitignore[1]

\* the directories above a path: os.walk comes to a file through each of them
Ancestors(p) == {SubSeq(p, 1, i - 1) : i \in {k \in 1..Len(p) : p[k] = "/"}}

\* SubjectFiles without the filter on dirs
SubjectFilesUnpruned(tree) ==
    {f \in DOMAIN tree : ~IsIgnored(f) /\ EndsWithPy(Basename(f))}

\* the files _walk_repo hands to _index_file: those of the directories left in
\* dirs, not ignored themselves, that end with .py
SubjectFiles(tree) ==
    {f \in DOMAIN tree : /\ \A d \in Ancestors(f) : ~IsIgnored(d)
                         /\ ~IsIgnored(f)
                         /\ EndsWithPy(Basename(f))}

\* the files os.walk(self.root_path) leads _walk_repo to; without onerror a root
\* that cannot be listed yields nothing
WalkRepo(tree) == IF root_exists THEN SubjectFiles(tree) ELSE {}

\* os.walk is top-down: the files of the root are yielded before those of the
\* directory below it; the files of one directory come in any order
MayVisit(f, left) == \A g \in left : Dirname(g) = <<>> => Dirname(f) = <<>>

\* _index_file: read, record, parse, walk
IndexFileResult(f) ==
    WalkAst(repo[f], f, None, None,
            [defs |-> symbol_defs,
             imports |-> [x \in DOMAIN imports \cup {f} |->
                            IF x = f THEN [internal |-> <<>>, external |-> <<>>]
                            ELSE imports[x]],
             called_by |-> called_by, reg |-> reg, sites |-> sites, err |-> FALSE])

\* no reader has looked at indexer.json
NotRead == <<>>

IndexInit ==
    /\ repo \in Repos
    /\ root_exists = TRUE
    /\ observed = NotRead
    /\ pc = "idle"
    /\ todo = {}
    /\ files_source = <<>>
    /\ imports = <<>>
    /\ symbol_defs = EmptyDict
    /\ called_by = <<>>
    /\ heap = <<EmptyJson>>
    /\ self_json = 1
    /\ returned = <<>>
    /\ reg = <<>>
    /\ sites = {}
    /\ base = 0

\* index() is called
Start ==
    /\ pc = "idle"
    /\ Len(returned) < MaxRuns
    /\ pc' = "walk"
    /\ todo' = WalkRepo(repo)
    /\ reg' = <<>>
    /\ sites' = {}
    /\ base' = Len(heap[self_json].files)
    /\ UNCHANGED <<repo, root_exists, observed, files_source, imports, symbol_defs,
                   called_by, heap,
                   self_json, returned>>

\* _walk_repo reaches file f
IndexFile(f) ==
    /\ pc = "walk"
    /\ f \in todo
    /\ MayVisit(f, todo)
    /\ IF repo[f] = Unreadable
       THEN /\ pc' = "raised"
            /\ UNCHANGED <<files_source, imports, symbol_defs, called_by, reg, sites>>
       ELSE LET st == IndexFileResult(f)
            IN  /\ files_source' = IF f \in Range(files_source) THEN files_source
                                   ELSE Append(files_source, f)
                /\ imports' = st.imports
                /\ symbol_defs' = st.defs
                /\ called_by' = st.called_by
                /\ reg' = st.reg
                /\ sites' = st.sites
                /\ pc' = IF st.err THEN "raised" ELSE "walk"
    /\ todo' = todo \ {f}
    /\ UNCHANGED <<repo, root_exists, observed, heap, self_json, returned, base>>

\* _build_folder_index, once the walk is over
BuildFolderIndex ==
    /\ pc = "walk"
    /\ todo = {}
    /\ heap' = [heap EXCEPT ![self_json].folders = @ \o FolderEntries(files_source)]
    /\ pc' = "files"
    /\ UNCHANGED <<repo, root_exists, observed, todo, files_source, imports,
                   symbol_defs, called_by,
                   self_json, returned, reg, sites, base>>

\* _build_file_objects
BuildFileObjects ==
    /\ pc = "files"
    /\ heap' = [heap EXCEPT ![self_json].files = @ \o FileEntries(symbol_defs, imports)]
    /\ pc' = "done"
    /\ UNCHANGED <<repo, root_exists, observed, todo, files_source, imports,
                   symbol_defs, called_by,
                   self_json, returned, reg, sites, base>>

\* return self.json
Return ==
    /\ pc = "done"
    /\ returned' = Append(returned,
                    [obj |-> self_json, snap |-> heap[self_json],
                     new |-> SubSeq(heap[self_json].files, base + 1,
                                    Len(heap[self_json].files))])
    /\ pc' = "idle"
    /\ UNCHANGED <<repo, root_exists, observed, todo, files_source, imports,
                   symbol_defs, called_by,
                   heap, self_json, reg, sites, base>>

\* a reader holding the indexer looks at indexer.json
ReadJson ==
    /\ observed' = <<heap[self_json]>>
    /\ UNCHANGED <<repo, root_exists, pc, todo, files_source, imports, symbol_defs,
                   called_by, heap, self_json, returned, reg, sites, base>>

\* CodeIndexer(repo_id, root_path): another indexer over the same tree
Construct ==
    /\ pc = "idle"
    /\ Len(returned) < MaxRuns
    /\ \E i \in 1..Len(returned) : returned[i].obj = self_json
    /\ files_source' = <<>>
    /\ imports' = <<>>
    /\ symbol_defs' = EmptyDict
    /\ called_by' = <<>>
    /\ heap' = Append(heap, EmptyJson)
    /\ self_json' = Len(heap) + 1
    /\ reg' = <<>>
    /\ sites' = {}
    /\ base' = 0
    /\ UNCHANGED <<repo, root_exists, observed, pc, todo, returned>>

(***************************************************************************)
(* trace(start_symbol, depth) and the /trace endpoint                      *)
(***************************************************************************)
\* the names a call graph is drawn over
Nodes == {"A", "B", "C", "D"}

\* the names that may be defined functions; no file defines "D"
Defined == {"A", "B", "C"}

\* the sets of callees one function may have
CalleeSets == {cs \in SUBSET Nodes : Cardinality(cs) <= MaxCallees}

\* self.calls after indexing: every defined function is a key, a callee is any name
Graphs == UNION {[known -> CalleeSets] : known \in SUBSET Defined}

\* the start symbols asked for.  Graphs is closed under renaming A, B and C, so
\* "A" stands for any of them, defined or not
Starts == {"A", "D"}

Depths == (0 - 2)..MaxDepth

NoQuery == [start |-> "-", depth |-> 0]

\* no earlier trace call is remembered
NoAnswer == [query |-> NoQuery, result |-> <<>>]

\* self.calls.get(symbol, [])
CallsGet(symbol) == IF symbol \in DOMAIN calls THEN calls[symbol] ELSE {}

\* DfsGuard without its visited test
DfsGuardDepthOnly(symbol, d, marked) == d = 0

\* if d == 0 or symbol in visited: return
DfsGuard(symbol, d, marked) == d = 0 \/ symbol \in marked

\* CalleeDepth without the decrement
CalleeDepthSame(d) == d

\* the depth handed to dfs for a callee
CalleeDepth(d) == d - 1

\* dfs(symbol, d) up to its loop: the state [stack, visited, result, expanded]
\* it leaves, called in state t
DfsEnter(symbol, d, t) ==
    IF DfsGuard(symbol, d, t.visited) THEN t
    ELSE [stack    |-> Append(t.stack, [symbol |-> symbol, d |-> d,
                                        rest |-> CallsGet(symbol)]),
          visited  |-> t.visited \cup {symbol},
          result   |-> [x \in DOMAIN t.result \cup {symbol} |->
                          IF x = symbol THEN CallsGet(symbol) ELSE t.result[x]],
          expanded |-> [t.expanded EXCEPT ![symbol] = @ + 1]]

Top == stack[Len(stack)]

TraceStart ==
    /\ calls \in Graphs
    /\ query = NoQuery
    /\ stack = <<>>
    /\ visited = {}
    /\ result = <<>>
    /\ expanded = [n \in Nodes |-> 0]
    /\ response = "idle"
    /\ earlier = NoAnswer

\* GET /trace/{symbol}?depth=..: trace_symbol calls indexer.trace, which calls
\* dfs(start_symbol, depth)
TraceCall(symbol, depth) ==
    /\ response # "running"
    /\ query' = [start |-> symbol, depth |-> depth]
    /\ LET t == DfsEnter(symbol, depth,
                         [stack |-> <<>>, visited |-> {}, result |-> <<>>,
                          expanded |-> [n \in Nodes |-> 0]])
       IN  /\ stack' = t.stack
           /\ visited' = t.visited
           /\ result' = t.result
           /\ expanded' = t.expanded
    /\ response' = "running"
    /\ UNCHANGED calls

\* one turn of the loop over the callees (a set: they come in any order):
\* dfs(callee, d - 1)
DfsCallee(callee) ==
    /\ stack # <<>>
    /\ callee \in Top.rest
    /\ LET t == DfsEnter(callee, CalleeDepth(Top.d),
                         [stack |-> [stack EXCEPT ![Len(stack)].rest = @ \ {callee}],
                          visited |-> visited, result |-> result,
                          expanded |-> expanded])
       IN  /\ stack' = t.stack
           /\ visited' = t.visited
           /\ result' = t.result
           /\ expanded' = t.expanded
    /\ UNCHANGED <<calls, query, response>>

\* the loop is over: dfs returns
DfsReturn ==
    /\ stack # <<>>
    /\ Top.rest = {}
    /\ stack' = SubSeq(stack, 1, Len(stack) - 1)
    /\ UNCHANGED <<calls, query, visited, result, expanded, response>>

\* if not trace: return {"error": ...}; else the graph
TraceResponse(trace) == IF trace = <<>> THEN "error" ELSE "graph"

\* trace returns result, and trace_symbol answers
Respond ==
    /\ response = "running"
    /\ stack = <<>>
    /\ response' = TraceResponse(result)
    /\ UNCHANGED <<calls, query, stack, visited, result, expanded>>

DfsStep == (\E c \in Nodes : DfsCallee(c)) \/ DfsReturn \/ Respond

\* trace_symbol has answered the running query
Answered == response \in {"error", "graph"}

\* the first trace call of a process
TraceFirst(symbol, depth) ==
    /\ response = "idle"
    /\ TraceCall(symbol, depth)
    /\ UNCHANGED earlier

\* the same query is asked once more over the same self.calls; the first answer
\* is remembered
TraceAgain ==
    /\ Answered
    /\ earlier = NoAnswer
    /\ earlier' = [query |-> query, result |-> result]
    /\ TraceCall(query.start, query.depth)

(***************************************************************************)
(* build_context(symbol, depth) and the /explain endpoint                  *)
(***************************************************************************)
\* How each name of Nodes is spelled: "C" is the method C of the class D, which
\* the legacy walk stores under "D.C"; the others are bare names.
Spelling == [n \in Nodes |-> IF n = "C" THEN <<"D", ".", "C">> ELSE <<n>>]

\* "." in symbol
HasDot(symbol) == "." \in Range(Spelling[symbol])

\* symbol.split(".")[0]
SplitFirst(symbol) ==
    LET sp == Spelling[symbol]
        i  == CHOOSE i \in 1..Len(sp) : sp[i] = "." /\ \A j \in 1..(i - 1) : sp[j] # "."
    IN  CHOOSE n \in Nodes : Spelling[n] = SubSeq(sp, 1, i - 1)

\* the symbols build_context is asked for: a function, a method, a class or an
\* undefined name
Targets == {"A", "C", "D"}

\* the depths build_context is asked for
ContextDepths == {1, MaxDepth}

\* the call edges of a graph
Edges(g) == UNION {{<<c, x>> : x \in g[c]} : c \in DOMAIN g}

\* self.calls of the indexes build_context is asked over
ContextGraphs == {g \in Graphs : Cardinality(Edges(g)) <= MaxEdges}

\* an entry-point record as _detect_entry_points appends it; decorates is
\* history the code does not record: the function the decorator stands on
EntryPoint(fn) == [type |-> "http", decorator |-> "get", file |-> "f", decorates |-> fn]

\* ep.get(key)
EpGet(ep, key) == IF key \in DOMAIN ep THEN ep[key] ELSE None

\* the handlers the loop over indexer.entry_points goes on with (if not handler:
\* continue)
EntryHandlers ==
    Pick([i \in 1..Len(entry_points) |-> EpGet(entry_points[i], "handler")], 1,
         {i \in 1..Len(entry_points) : Truthy(EpGet(entry_points[i], "handler"))})

\* indexer.called_by.get(symbol, set()); the legacy walk adds caller to
\* called_by[callee] exactly when it adds callee to calls[caller]
CalledByGet(symbol) == {c \in DOMAIN calls : symbol \in calls[c]}

\* indexer.callback_used_by.get(symbol, [])
CallbackUsedByGet(symbol) ==
    IF symbol \in DOMAIN callback_used_by THEN callback_used_by[symbol] ELSE {}

\* get_symbol_code: None without a stored symbol, else its file and source slice
GetSymbolCode(symbol) ==
    IF symbol \in symbols THEN <<[file |-> "f", code |-> symbol]>> ELSE None

\* add_symbol without its seen test
AddSymbolUnseen(sym, fr) ==
    LET code == GetSymbolCode(sym)
    IN  [seen     |-> fr.seen \cup {sym},
         sections |-> IF ~Truthy(code) THEN fr.sections
                      ELSE Append(fr.sections, [symbol |-> sym, file |-> code[1].file])]

\* add_symbol(sym), on the frame fr = [seen, sections]
AddSymbol(sym, fr) ==
    IF sym \in fr.seen THEN fr
    ELSE LET code == GetSymbolCode(sym)
         IN  [seen     |-> fr.seen \cup {sym},
              sections |-> IF ~Truthy(code) THEN fr.sections
                           ELSE Append(fr.sections, [symbol |-> sym, file |-> code[1].file])]

RECURSIVE AddAll(_, _, _)
\* for sym in syms: add_symbol(sym), from index i on
AddAll(syms, i, fr) ==
    IF i > Len(syms) THEN fr ELSE AddAll(syms, i + 1, AddSymbol(syms[i], fr))

\* the orders a set may be iterated in
Orders(S) ==
    {o \in [1..Cardinality(S) -> S] : \A i, j \in 1..Cardinality(S) : i # j => o[i] # o[j]}

\* POST /explain: explain_code calls build_context, which runs up to its call
\* of indexer.trace(symbol, depth) and enters dfs(symbol, depth)
Explain(symbol, depth) ==
    /\ ctx_pc # "trace"
    /\ EntryHandlers = <<>>
    /\ \E parents \in Orders(CalledByGet(symbol)) :
          LET fr1 == AddAll(parents, 1, [seen |-> {}, sections |-> <<>>])
              fr2 == AddSymbol(symbol, fr1)
              fr3 == IF HasDot(symbol) THEN AddSymbol(SplitFirst(symbol), fr2) ELSE fr2
          IN  /\ seen' = fr3.seen
              /\ sections' = fr3.sections
    /\ TraceCall(symbol, depth)
    /\ trace_keys' = IF visited' = {} THEN <<>> ELSE <<symbol>>
    /\ ctx_pc' = "trace"
    /\ UNCHANGED <<symbols, callback_used_by, entry_points>>

\* a turn of dfs's loop inside build_context's trace call
ContextDfsCallee(callee) ==
    /\ ctx_pc = "trace"
    /\ DfsCallee(callee)
    /\ trace_keys' = IF visited' = visited THEN trace_keys ELSE Append(trace_keys, callee)
    /\ UNCHANGED <<symbols, callback_used_by, entry_points, ctx_pc, seen, sections>>

\* dfs returns inside build_context's trace call
ContextDfsReturn ==
    /\ ctx_pc = "trace"
    /\ DfsReturn
    /\ UNCHANGED contextVars

\* if not context: return {"error": ...}; else the explanation
ExplainResponse(context) == IF context = <<>> THEN "error" ELSE "explanation"

\* trace has returned: build_context adds the keys of the trace, then the
\* callback users, and returns; explain_code answers
ExplainRespond ==
    /\ ctx_pc = "trace"
    /\ stack = <<>>
    /\ \E users \in Orders(CallbackUsedByGet(query.start)) :
          LET fr1 == AddAll(trace_keys, 1, [seen |-> seen, sections |-> sections])
              fr2 == AddAll(users, 1, fr1)
          IN  /\ seen' = fr2.seen
              /\ sections' = fr2.sections
              /\ response' = ExplainResponse(fr2.sections)
    /\ ctx_pc' = "returned"
    /\ UNCHANGED <<calls, query, stack, visited, result, expanded, symbols,
                   callback_used_by, entry_points, trace_keys>>

\* the legacy stores after index_folder: every function is stored as a symbol,
\* the class D of a method D.C is stored, one function at most holds a callback
\* and one at most carries an entry-point decorator
ContextStart ==
    /\ calls \in ContextGraphs
    /\ symbols \in {DOMAIN calls \cup cls : cls \in SUBSET {"D"}}
    /\ "C" \in symbols => "D" \in symbols
    /\ callback_used_by \in
          {<<>>} \cup {[k \in {cb} |-> {"A"}] : cb \in {n \in Targets : "A" \in DOMAIN calls}}
    /\ entry_points \in
          {<<>>} \cup {<<EntryPoint(fn)>> : fn \in {"A"} \cap DOMAIN calls}
    /\ ctx_pc = "idle"
    /\ seen = {}
    /\ sections = <<>>
    /\ trace_keys = <<>>
    /\ query = NoQuery
    /\ stack = <<>>
    /\ visited = {}
    /\ result = <<>>
    /\ expanded = [n \in Nodes |-> 0]
    /\ response = "idle"
    /\ earlier = NoAnswer

(***************************************************************************)
(* Specifications                                                          *)
(***************************************************************************)
\* no indexing is going on
IndexIdle ==
    /\ repo = <<>>
    /\ root_exists = TRUE
    /\ observed = NotRead
    /\ pc = "idle"
    /\ todo = {}
    /\ files_source = <<>>
    /\ imports = <<>>
    /\ symbol_defs = EmptyDict
    /\ called_by = <<>>
    /\ heap = <<EmptyJson>>
    /\ self_json = 1
    /\ returned = <<>>
    /\ reg = <<>>
    /\ sites = {}
    /\ base = 0

\* no trace is going on
TraceIdle ==
    /\ calls = <<>>
    /\ query = NoQuery
    /\ stack = <<>>
    /\ visited = {}
    /\ result = <<>>
    /\ expanded = [n \in Nodes |-> 0]
    /\ response = "idle"
    /\ earlier = NoAnswer

\* no build_context is going on, over empty legacy stores
ContextIdle ==
    /\ symbols = {}
    /\ callback_used_by = <<>>
    /\ entry_points = <<>>
    /\ ctx_pc = "idle"
    /\ seen = {}
    /\ sections = <<>>
    /\ trace_keys = <<>>

Init == IndexInit /\ TraceIdle /\ ContextIdle

Next ==
    \/ Start /\ UNCHANGED nonIndexVars
    \/ (\E f \in AllPaths : IndexFile(f)) /\ UNCHANGED nonIndexVars
    \/ BuildFolderIndex /\ UNCHANGED nonIndexVars
    \/ BuildFileObjects /\ UNCHANGED nonIndexVars
    \/ Return /\ UNCHANGED nonIndexVars
    \/ Construct /\ UNCHANGED nonIndexVars

\* indexing a file tree
Spec == Init /\ [][Next]_vars

\* a root that is there with any tree of Trees below it, or a root that is not
WalkStart ==
    /\ root_exists \in BOOLEAN
    /\ repo \in (IF root_exists THEN Trees ELSE {<<>>})
    /\ observed = NotRead
    /\ pc = "idle"
    /\ todo = {}
    /\ files_source = <<>>
    /\ imports = <<>>
    /\ symbol_defs = EmptyDict
    /\ called_by = <<>>
    /\ heap = <<EmptyJson>>
    /\ self_json = 1
    /\ returned = <<>>
    /\ reg = <<>>
    /\ sites = {}
    /\ base = 0

WalkInit == WalkStart /\ TraceIdle /\ ContextIdle

\* indexing a tree with an ignore file, unreadable files and a manifest, or a
\* root that is missing
WalkSpec == WalkInit /\ [][Next]_vars

ReaderNext ==
    \/ Next
    \/ ReadJson /\ UNCHANGED nonIndexVars

\* index() with a reader of indexer.json beside it
ReaderSpec == WalkInit /\ [][ReaderNext]_vars

TraceInit == TraceStart /\ IndexIdle /\ ContextIdle

TraceNext ==
    \/ (\E s \in Starts, d \in Depths : TraceCall(s, d)) /\ UNCHANGED nonTraceVars
    \/ (\E c \in Nodes : DfsCallee(c)) /\ UNCHANGED nonTraceVars
    \/ DfsReturn /\ UNCHANGED nonTraceVars
    \/ Respond /\ UNCHANGED nonTraceVars

\* trace queries over a finished legacy index
TraceSpec == TraceInit /\ [][TraceNext]_vars

\* dfs is sequential code: a call that can take a step takes it
TraceFairSpec == TraceSpec /\ WF_vars(DfsStep /\ UNCHANGED nonTraceVars)

TraceTwiceNext ==
    \/ (\E s \in Starts, d \in Depths : TraceFirst(s, d))
          /\ UNCHANGED <<indexVars, contextVars>>
    \/ TraceAgain /\ UNCHANGED <<indexVars, contextVars>>
    \/ (\E c \in Nodes : DfsCallee(c)) /\ UNCHANGED nonTraceVars
    \/ DfsReturn /\ UNCHANGED nonTraceVars
    \/ Respond /\ UNCHANGED nonTraceVars

\* one query asked twice over a finished legacy index
TraceTwiceSpec == TraceInit /\ [][TraceTwiceNext]_vars

ContextInit == ContextStart /\ IndexIdle

ContextNext ==
    \/ (\E s \in Targets, d \in ContextDepths : Explain(s, d))
          /\ UNCHANGED <<indexVars, earlier>>
    \/ (\E c \in Nodes : ContextDfsCallee(c)) /\ UNCHANGED <<indexVars, earlier>>
    \/ ContextDfsReturn /\ UNCHANGED <<indexVars, earlier>>
    \/ ExplainRespond /\ UNCHANGED <<indexVars, earlier>>

\* /explain requests over a finished legacy index
ContextSpec == ContextInit /\ [][ContextNext]_vars

(***************************************************************************)
(* Properties of the Index                                                 *)
(***************************************************************************)
\* the Index document the running index() call is building or has built
Json == heap[self_json]

ClassViews(files) == UNION {Range(files[i].classes) : i \in 1..Len(files)}

FunctionViews(files) == UNION {Range(files[i].functions) : i \in 1..Len(files)}

\* the file views this run of index() produced
Produced == SubSeq(Json.files, base + 1, Len(Json.files))

\* the Functions this run produced that have short name t
Candidates(t) == {g \in FunctionViews(Produced) : g.name = t}

\* the raw call targets recorded for the function with qualified name q
RawTargets(q) ==
    IF DictHas(symbol_defs, q) /\ symbol_defs.val[q].type = "function"
    THEN symbol_defs.val[q].calls ELSE {}

\* C1: resolution symmetry.  After indexing, whenever function f has a raw call
\* target t and exactly one Function of the Index has short name t, f's calls hold
\* that Function's qualified name and that Function's called_by holds f.
C1_ResolutionSymmetry ==
    pc = "done" =>
        \A f \in FunctionViews(Produced) : \A t \in RawTargets(f.qualified_name) :
            \A g \in Candidates(t) :
                Cardinality(Candidates(t)) = 1 =>
                    /\ g.qualified_name \in f.calls
                    /\ f.qualified_name \in g.called_by

\* C2: ambiguity preserved.  After indexing, a raw call target t of function f
\* that zero or several Functions of the Index are named by stays the bare name t
\* in f's calls; f's calls hold the qualified name of none of them and none of
\* them holds f in its called_by.
C2_AmbiguityPreserved ==
    pc = "done" =>
        \A f \in FunctionViews(Produced) : \A t \in RawTargets(f.qualified_name) :
            Cardinality(Candidates(t)) # 1 =>
                /\ t \in f.calls
                /\ \A g \in Candidates(t) :
                      /\ g.qualified_name \notin f.calls
                      /\ f.qualified_name \notin g.called_by

\* an indexed function calls a name that two Functions of the Index share
C2_Witness ==
    /\ pc = "done"
    /\ \E f \in FunctionViews(Produced) : \E t \in RawTargets(f.qualified_name) :
          Cardinality(Candidates(t)) >= 2 /\ t \in f.calls

\* C3: qualified names are unique.  In a run that built its Index, no two of the
\* class and function definitions the walk visited were given the same qualified
\* name, so that every one of them has a symbol record of its own.
C3_QualifiedNamesUnique ==
    pc = "done" =>
        /\ \A i, j \in 1..Len(reg) : i # j => reg[i] # reg[j]
        /\ Len(reg) = Len(symbol_defs.keys)

\* C4: after index() has built the Index, every file that was read appears exactly
\* once in codebase.files, and every registered symbol appears exactly once in the
\* class or function view of its owning file.
C4_EveryFileAndSymbolOnce ==
    pc = "done" =>
        /\ \A f \in Range(files_source) :
              Cardinality({i \in 1..Len(Json.files) : Json.files[i].path = f}) = 1
        /\ \A q \in Range(symbol_defs.keys) :
              LET sym == symbol_defs.val[q]
                  own == {i \in 1..Len(Json.files) : Json.files[i].path = sym.file}
                  at(i) == IF sym.type = "class"
                           THEN {k \in 1..Len(Json.files[i].classes) :
                                    Json.files[i].classes[k].qualified_name = q}
                           ELSE {k \in 1..Len(Json.files[i].functions) :
                                    Json.files[i].functions[k].qualified_name = q}
              IN  /\ Cardinality(own) = 1
                  /\ \A i \in own : Cardinality(at(i)) = 1

\* C5: the result of indexing depends on the file tree alone.  Any two runs over
\* the tree, whatever the order the files were visited in, return the same
\* symbols: the same class views (with their method lists) and function views
\* (with their calls and called_by).
C5_OrderIndependent ==
    \A i, j \in 1..Len(returned) :
        /\ ClassViews(returned[i].new) = ClassViews(returned[j].new)
        /\ FunctionViews(returned[i].new) = FunctionViews(returned[j].new)

\* C6: the Index is whole-replace.  An Index that index() returned keeps the value
\* it was returned with, whatever a later index() call on the CodeIndexer does: it
\* receives no further folder or file entries.
C6_WholeReplace ==
    \A i \in 1..Len(returned) : heap[returned[i].obj] = returned[i].snap

\* C21: every call expression inside a function records a raw call target on
\* that function.  After indexing, the calls of a function hold the callee name
\* of every call expression the walk met inside it, the attribute's short name
\* for a member access as well as a bare identifier, and hold nothing that no
\* call expression inside the function names.
C21_CallTargetsRecorded ==
    pc = "done" =>
        /\ \A c \in sites : c.target \in RawTargets(c.fn)
        /\ \A q \in Range(symbol_defs.keys) : \A t \in RawTargets(q) :
              \E c \in sites : c.fn = q /\ c.target = t

RECURSIVE OwnFunctions(_)
RECURSIVE OwnFunctionsOfKids(_, _)
\* the names of the function definitions below node that no class definition
\* between node and them encloses, in declaration order
OwnFunctions(node) == OwnFunctionsOfKids(node.kids, 1)

OwnFunctionsOfKids(kids, i) ==
    IF i > Len(kids) THEN <<>>
    ELSE (IF kids[i].type = "class_definition" THEN <<>>
          ELSE IF kids[i].type = "function_definition"
          THEN <<kids[i].name>> \o OwnFunctions(kids[i])
          ELSE OwnFunctions(kids[i]))
         \o OwnFunctionsOfKids(kids, i + 1)

RECURSIVE ClassNodes(_)
\* the class definitions at and below node
ClassNodes(node) ==
    (IF node.type = "class_definition" THEN {node} ELSE {})
    \cup UNION {ClassNodes(node.kids[i]) : i \in 1..Len(node.kids)}

\* C22: lexical nesting.  After indexing, the method list of every class
\* definition holds, in declaration order, the functions defined inside that
\* class and no others, each of them stored under class qname + "." + name; a
\* function that no class encloses is stored under file-module-path + "." + name
\* and stands in no method list.
C22_NestingState ==
    pc = "done" =>
        \A f \in Range(files_source) \cap WalkRepo(repo) :
            /\ \A k \in ClassNodes(repo[f]) :
                  LET q == ClassQName(f, k.name)
                  IN  /\ DictHas(symbol_defs, q)
                      /\ symbol_defs.val[q].methods = OwnFunctions(k)
                      /\ \A n \in Range(OwnFunctions(k)) : DictHas(symbol_defs, Dotted(q, n))
            /\ \A n \in Range(OwnFunctions(repo[f])) :
                  DictHas(symbol_defs, Dotted(ModulePath(f), n))

(***************************************************************************)
(* Properties of trace                                                     *)
(***************************************************************************)
RECURSIVE Within(_, _)
\* the names at most k call edges away from start
Within(start, k) ==
    IF k <= 0 THEN {start}
    ELSE LET near == Within(start, k - 1)
         IN  near \cup UNION {CallsGet(n) : n \in near}

\* the safety half of C7
ExpandedOnce ==
    /\ \A n \in Nodes : expanded[n] <= 1 /\ (n \in DOMAIN result <=> expanded[n] = 1)
    /\ DOMAIN result = visited

\* C7: trace terminates.  For every call graph (cycles, self-calls and diamonds
\* included) and every depth, a running trace call is answered in the end; no
\* node is expanded twice, and the keys of the result are the nodes expanded.
C7_TraceTerminates ==
    /\ []ExpandedOnce
    /\ (response = "running") ~> Answered

\* trace(A, 2) over the cycle A -> B -> A was answered with the keys A and B
C7_Witness ==
    /\ Answered
    /\ query = [start |-> "A", depth |-> 2]
    /\ DOMAIN calls = {"A", "B"}
    /\ calls["A"] = {"B"} /\ calls["B"] = {"A"}
    /\ DOMAIN result = {"A", "B"}
    /\ expanded["A"] = 1 /\ expanded["B"] = 1

\* C8: for every depth <= 0 and every start known to the index, the result holds
\* the start key alone and no callee of start is expanded.
C8_NonPositiveDepthSingleNode ==
    (Answered /\ query.depth <= 0 /\ query.start \in DOMAIN calls) =>
        /\ DOMAIN result = {query.start}
        /\ \A n \in Nodes \ {query.start} : expanded[n] = 0

\* C9: an unknown start gives the empty result and the endpoint's error answer, a
\* known start without outgoing calls gives the start key with no targets.  Stated
\* for the depths >= 1, where trace expands at all (depth 0 is C8's case).
C9_UnknownStartEmpty ==
    (Answered /\ query.depth >= 1) =>
        /\ query.start \notin DOMAIN calls => (result = <<>> /\ response = "error")
        /\ (query.start \in DOMAIN calls /\ calls[query.start] = {}) =>
              (DOMAIN result = {query.start} /\ result[query.start] = {})

\* C10: depth bound.  For every depth >= 1, at every moment of a trace call every
\* key of the result is at most depth call edges away from start and maps to
\* exactly that node's direct call targets, and no node farther away than that
\* has been expanded.
C10_DepthBound ==
    query.depth >= 1 =>
        /\ \A k \in DOMAIN result :
              /\ k \in Within(query.start, query.depth)
              /\ result[k] = CallsGet(k)
        /\ \A n \in Nodes \ Within(query.start, query.depth) : expanded[n] = 0

\* a trace of depth 2 was answered and left a node that start reaches unexpanded
C10_Witness ==
    /\ Answered
    /\ query.depth = 2
    /\ Cardinality(DOMAIN result) = 2
    /\ \E n \in Within(query.start, 3) : n \notin DOMAIN result /\ n \in DOMAIN calls

\* C11: trace is a function of the index and its arguments.  When the same start
\* and depth are asked twice over the same self.calls, the second answer has the
\* keys of the first and the same targets under each key, whatever order the
\* callee sets were iterated in.
C11_TraceIsFunction ==
    (Answered /\ earlier.query = query) => result = earlier.result

\* C23: trace is complete within the depth bound.  For every call graph, every
\* start known to the index and every depth >= 1, each node fewer than depth call
\* edges away from start along its shortest call path is a key of the answer,
\* whichever callee the walk takes first.
C23_TraceComplete ==
    (Answered /\ query.depth >= 1 /\ query.start \in DOMAIN calls) =>
        Within(query.start, query.depth - 1) \subseteq DOMAIN result

(***************************************************************************)
(* Properties of build_context                                             *)
(***************************************************************************)
\* C12: context dedup.  At every moment of build_context, for every target and
\* depth, no two blocks of sections carry the same symbol, whatever relations the
\* symbol is reachable through.
C12_ContextDedup ==
    \A i, j \in 1..Len(sections) : i # j => sections[i].symbol # sections[j].symbol

\* the context of the method C was returned; C calls itself, and A is both a
\* caller of C and a node of its trace; each has one block
C12_Witness ==
    /\ ctx_pc = "returned"
    /\ query.start = "C"
    /\ {"A", "C"} \subseteq CalledByGet("C")
    /\ {"A", "C"} \subseteq Range(trace_keys)
    /\ \A n \in {"A", "C", "D"} :
          Cardinality({i \in 1..Len(sections) : sections[i].symbol = n}) = 1

\* C13: unknown symbol to context.  For a target that is not a stored symbol of
\* the index, build_context returns the empty concatenation and the endpoint
\* answers its 'not found' error; a context with a block in it is returned only
\* for a target that is a stored symbol.
C13_UnknownTargetEmpty ==
    (ctx_pc = "returned" /\ query.start \notin symbols) =>
        (sections = <<>> /\ response = "error")

\* relation (a), in the cases that do not depend on the order dfs takes the
\* callees in: the decorated functions whose trace at the asked depth holds the
\* target because they are the target or call it directly
RelEntryPoints ==
    {entry_points[i].decorates : i \in 1..Len(entry_points)} \cap
    {e \in Nodes : \/ query.depth >= 1 /\ e = query.start
                   \/ query.depth >= 2 /\ query.start \in CallsGet(e)}

\* relations (b) to (f) of the returned context
RelCallers == CalledByGet(query.start)

RelTarget == {query.start}

RelClass == IF HasDot(query.start) THEN {SplitFirst(query.start)} ELSE {}

RelTrace == DOMAIN result

RelCallbacks == CallbackUsedByGet(query.start)

Relations == <<RelEntryPoints, RelCallers, RelTarget, RelClass, RelTrace, RelCallbacks>>

\* the first relation that contains n
Rank(n) == CHOOSE r \in 1..6 : n \in Relations[r] /\ \A q \in 1..(r - 1) : n \notin Relations[q]

\* C14: context precedence order.  A returned context holds one block for every
\* member of the relations (a) to (f) that has a stored source slice and for
\* nothing else, and the blocks stand in the order of the relations, each symbol
\* under the first relation that contains it; members without a slice are left
\* out.
C14_ContextOrder ==
    ctx_pc = "returned" =>
        /\ {sections[i].symbol : i \in 1..Len(sections)} =
              (UNION Range(Relations)) \cap symbols
        /\ \A i, j \in 1..Len(sections) :
              i < j => Rank(sections[i].symbol) <= Rank(sections[j].symbol)

(***************************************************************************)
(* Properties of the walker and of the metadata                            *)
(***************************************************************************)
\* C15: manifest-based dependency inference.  When the tree holds a dependency
\* manifest, the external_dependencies of the Index index() built are the names
\* standing first on the manifest's lines that are neither blank nor comments,
\* without the standard-library name os, whatever the files import.
C15_ManifestDependencies ==
    (pc = "done" /\ PathReq \in DOMAIN repo) =>
        LET lines == repo[PathReq].lines
            named == {k \in 1..Len(lines) : lines[k] # <<>> /\ lines[k][1] # "#"}
        IN  Range(Json.external_dependencies) = {lines[k][1] : k \in named} \ {"os"}

\* C16: import-based dependency inference.  Without a manifest, the
\* external_dependencies of the Index index() built are the top-level module
\* names of the recorded imports of both forms, without the standard-library
\* name os and without the names of the directories under the root.
C16_ImportDependencies ==
    (pc = "done" /\ PathReq \notin DOMAIN repo) =>
        LET recorded == UNION {Range(imports[f].internal) \cup Range(imports[f].external) :
                                 f \in DOMAIN imports}
            rootdirs == {q[1] : q \in {r \in DOMAIN repo : "/" \in Range(r)}}
        IN  Range(Json.external_dependencies) = ({n[1] : n \in recorded} \ {"os"}) \ rootdirs

\* C17: a file that cannot be read is skipped.  No run of index() ends in an
\* exception because of it, and a run that built its Index has read every other
\* file the walk hands over.
C17_BadFileSkipped ==
    /\ pc # "raised"
    /\ pc = "done" =>
          \A f \in WalkRepo(repo) : repo[f] # Unreadable => f \in Range(files_source)

\* C18: fail-fast on a bad root.  When the root is missing or cannot be listed,
\* index() never returns an Index.
C18_BadRootFailsFast ==
    ~root_exists => returned = <<>>

\* C19: ignore filtering.  Every file the walk has read, has still to read or has
\* put into the Index ends with .py, is not matched by the ignore file and lies
\* under no directory the ignore file matches; without an ignore file, a walk
\* that came to its end has read every .py file of the tree.
C19_IgnoreFiltering ==
    LET matched == IF PathGitignore \in DOMAIN repo
                   THEN repo[PathGitignore].matches ELSE {}
        indexed == {Json.files[i].path : i \in 1..Len(Json.files)}
    IN  /\ \A f \in todo \cup Range(files_source) \cup indexed :
              /\ EndsWithPy(f)
              /\ f \notin matched
              /\ \A d \in Ancestors(f) : d \notin matched
        /\ (root_exists /\ PathGitignore \notin DOMAIN repo /\ pc \in {"files", "done"}) =>
              \A f \in DOMAIN repo : EndsWithPy(f) => f \in Range(files_source)

\* an Index was built over a tree with a.py, d/a.py and a file that is no .py,
\* whose ignore file matches the directory d but not the path d/a.py: a.py was
\* read, d/a.py was not
C19_Witness ==
    /\ pc = "done"
    /\ {PathA, PathDA, PathReq, PathGitignore} \subseteq DOMAIN repo
    /\ repo[PathGitignore].matches = {DirD}
    /\ Range(files_source) = {PathA}
    /\ \E i \in 1..Len(Json.folders) : Json.folders[i].files = <<Basename(PathA)>>

\* C20: atomic publication.  What a reader of indexer.json sees is a whole Index:
\* the empty document the indexer was constructed with, an Index some index()
\* call has returned, or the Index the running call is about to return; never
\* one with the folders of a run but without its files.
C20_AtomicPublication ==
    LET now == heap[self_json]
        new == IF pc = "done" THEN {now}
               ELSE IF pc = "files"
               THEN {[now EXCEPT !.files = @ \o FileEntries(symbol_defs, imports)]}
               ELSE {}
    IN  \A i \in 1..Len(observed) :
            observed[i] \in {EmptyJson} \cup {returned[k].snap : k \in 1..Len(returned)} \cup new

====
